---- MODULE Spec2Model ----
(***************************************************************************)
(* Time Matrix quiz engine (src/script.js, the bilingual version that      *)
(* starts at line 686).  The state is the script's global variables, the   *)
(* persisted language preference, the two DOM elements the engine writes   *)
(* (current-activity and feedback) and the queue of auto-advance timers.   *)
(* Every handler of the script is one action.                              *)
(***************************************************************************)
EXTENDS Integers, Sequences, FiniteSets, TLC

VARIABLES
    pc,                  \* startup position: "start", "loadingActivities", "ready"
    activities,          \* let activities
    shuffledActivities,  \* let shuffledActivities
    currentActivityIndex,\* let currentActivityIndex (0-based, as in the code)
    score,               \* let score
    totalActivities,     \* let totalActivities
    currentLanguage,     \* let currentLanguage
    translations,        \* let translations
    savedLanguage,       \* localStorage["timeMatrixLanguage"]
    currentActivityEl,   \* what #current-activity shows
    feedbackEl,          \* class and text of #feedback
    advanceTimers,       \* pending setTimeout(showNextActivity, 1500) callbacks, oldest first
    shuffleCalls,        \* number of shuffleArray invocations so far
    uncaughtError,       \* an exception escaped a handler
    advances,            \* showNextActivity callbacks run in this session, up to AdvanceCap
    answerPolicy,        \* how the user answers: "any", "correct" or one fixed quadrant
    call                 \* the call of a single function under examination, or NoCall

vars == <<pc, activities, shuffledActivities, currentActivityIndex, score,
          totalActivities, currentLanguage, translations, savedLanguage,
          currentActivityEl, feedbackEl, advanceTimers, shuffleCalls,
          uncaughtError, advances, answerPolicy, call>>

----------------------------------------------------------------------------
(* Bounds *)

MaxActivities == 2   \* longest activity list supplied by data.json
MaxTimers     == 2   \* answers given within one 1500 ms window
MaxScore      == 4   \* cap on the score counter (re-answering makes it unbounded)

----------------------------------------------------------------------------
(* Values *)

Quadrants == <<"q1", "q2", "q3", "q4">>

QuadrantSet == {Quadrants[k] : k \in 1..4}

\* the key -> quadrant table of the keydown listener
quadrantMap == [k \in 1..4 |-> Quadrants[k]]

\* JavaScript undefined / a missing property
None == <<>>

\* the empty string
EmptyString == <<"">>

\* the values the || operator skips
Falsy(v) == v \in {None, EmptyString}

\* obj[key], undefined when the key is missing
Prop(obj, key) == IF key \in DOMAIN obj THEN obj[key] ELSE None

\* no function call is being examined
NoCall == [fn |-> "none"]

\* language codes a caller may pass; "xx" is in no translation table
LanguageCodes == {"en", "pt", "xx"}

\* localStorage.getItem returns null when the key was never set
Unset == "null"

\* values localStorage may hold before the page loads
StoredValues == {Unset, "en", "pt", "xx"}

\* a label table for one language: the keys the engine reads
LabelTable(src, lang) ==
    [q1Title |-> <<src, lang, "q1Title">>,
     q2Title |-> <<src, lang, "q2Title">>,
     q3Title |-> <<src, lang, "q3Title">>,
     q4Title |-> <<src, lang, "q4Title">>,
     correctFeedback   |-> <<src, lang, "correctFeedback">>,
     incorrectFeedback |-> <<src, lang, "incorrectFeedback">>]

\* getEmbeddedTranslations(): tables for en and pt
getEmbeddedTranslations == [l \in {"en", "pt"} |-> LabelTable("embedded", l)]

\* a lang.json that passes the validation: it has en and pt
ExternalTranslations == {[l \in {"en", "pt"} |-> LabelTable("lang.json", l)]}

\* translations[language] is truthy
HasLanguage(tr, language) == language \in DOMAIN tr

\* an activity description: a language-keyed object or a plain string
LocalizedText(i, langs) ==
    [isObject |-> TRUE, plain |-> None,
     byLang |-> [l \in {"en", "pt"} |-> IF l \in langs THEN <<l, "text", i>> ELSE None]]

PlainText(i) ==
    [isObject |-> FALSE, plain |-> <<"plain", "text", i>>,
     byLang |-> [l \in {"en", "pt"} |-> None]]

\* the i-th entry of a data.json: descriptions come in the three forms the
\* code distinguishes, the correct quadrant is chosen by the file
ExternalDescription(i) ==
    CASE i % 3 = 1 -> LocalizedText(i, {"en", "pt"})
      [] i % 3 = 2 -> PlainText(i)
      [] OTHER     -> LocalizedText(i, {"en"})

\* data.activities of a valid data.json with n entries; cq gives each
\* entry's correctQuadrant
ExternalActivities(n, cq) ==
    [i \in 1..n |-> [description |-> ExternalDescription(i),
                     correctQuadrant |-> cq[i]]]

\* embeddedData.activities: 28 bilingual entries, 7 q1, 9 q2, 6 q3, 6 q4;
\* the model keeps the first entry of each of the first EmbeddedLen blocks
EmbeddedLen == 3

EmbeddedActivities ==
    [i \in 1..EmbeddedLen |->
        [description |-> LocalizedText(100 + i, {"en", "pt"}),
         correctQuadrant |-> Quadrants[i]]]

----------------------------------------------------------------------------
(* Pure functions *)

\* a swap that forgets to write position i
Swap_HalfJ(s, i, j) ==
    [s EXCEPT ![j + 1] = s[i + 1]]

\* a swap that forgets to write position j
Swap_Mutant(s, i, j) ==
    [s EXCEPT ![i + 1] = s[j + 1]]

\* the swap [shuffled[i], shuffled[j]] = [shuffled[j], shuffled[i]] (0-based i, j)
Swap(s, i, j) ==
    [s EXCEPT ![i + 1] = s[j + 1], ![j + 1] = s[i + 1]]

\* the Fisher-Yates loop: for i from length-1 down to 1, swap i and draws[i]
RECURSIVE ShuffleLoop(_, _, _)
ShuffleLoop(shuffled, i, draws) ==
    IF i > 0
    THEN ShuffleLoop(Swap(shuffled, i, draws[i]), i - 1, draws)
    ELSE shuffled

\* the draws Math.floor(Math.random() * (i + 1)) can produce for each i
DrawSeqs(n) == [1..(n - 1) -> 0..(n - 1)]

\* a draw that never leaves element i in place
DrawRange_Sattolo(i) == 0..(i - 1)

\* Math.floor(Math.random() * (i + 1)): an index between 0 and i
DrawRange(i) == 0..i

ValidDraws(n) == {d \in DrawSeqs(n) : \A i \in 1..(n - 1) : d[i] \in DrawRange(i)}

shuffleArray(array, draws) == ShuffleLoop(array, Len(array) - 1, draws)

\* a rounding that forgets the factor 100
Accuracy_NoPercent(s, total) ==
    IF total = 0 THEN -1 ELSE (2 * s + total) \div (2 * total)

\* Math.round((score / totalActivities) * 100); -1 stands for NaN
Accuracy(s, total) ==
    IF total = 0 THEN -1 ELSE (200 * s + total) \div (2 * total)

\* a lookup that takes the active language's entry whenever the key is there
ActivityText_KeyPresent(activity, language) ==
    IF activity.description.isObject
    THEN IF language \in DOMAIN activity.description.byLang
         THEN activity.description.byLang[language]
         ELSE Prop(activity.description.byLang, "en")
    ELSE activity.description.plain

\* the description text displayActivity picks for a language
ActivityText(activity, language) ==
    IF activity.description.isObject
    THEN IF ~Falsy(Prop(activity.description.byLang, language))
         THEN Prop(activity.description.byLang, language)
         ELSE Prop(activity.description.byLang, "en")
    ELSE activity.description.plain

\* getQuadrantName(quadrant)
BuiltinNames ==
    [q \in QuadrantSet |-> <<"builtin", "en", q>>]

TitleOf(t, quadrant) ==
    CASE quadrant = "q1" -> t.q1Title
      [] quadrant = "q2" -> t.q2Title
      [] quadrant = "q3" -> t.q3Title
      [] quadrant = "q4" -> t.q4Title
      [] OTHER -> None

\* a lookup that returns whatever the table holds
getQuadrantName_NoFallback(tr, language, quadrant) ==
    IF ~HasLanguage(tr, language)
    THEN BuiltinNames[quadrant]
    ELSE TitleOf(tr[language], quadrant)

getQuadrantName(tr, language, quadrant) ==
    IF ~HasLanguage(tr, language)
    THEN IF quadrant \in QuadrantSet THEN BuiltinNames[quadrant] ELSE <<quadrant>>
    ELSE IF ~Falsy(TitleOf(tr[language], quadrant))
         THEN TitleOf(tr[language], quadrant)
         ELSE <<quadrant>>

----------------------------------------------------------------------------
(* DOM values *)

Loading == [kind |-> "loading", text |-> None, score |-> 0, total |-> 0, accuracy |-> 0]

\* the red message of loadActivities, which quotes error.message
ErrorScreen(message) ==
    [kind |-> "error", text |-> message, score |-> 0, total |-> 0, accuracy |-> 0]

ActivityScreen(text) ==
    [kind |-> "activity", text |-> text, score |-> 0, total |-> 0, accuracy |-> 0]

\* the report endGame writes
CompleteScreen(s, total) ==
    [kind |-> "complete", text |-> None, score |-> s, total |-> total,
     accuracy |-> Accuracy(s, total)]

FeedbackHidden(fb) == [fb EXCEPT !.className = "hidden"]

\* the earlier showTextFeedback, whose sentences are English literals
showTextFeedback_English(isCorrect, activity, tr, language) ==
    IF isCorrect
    THEN [className |-> "success", text |-> <<<<"builtin", "en", "correctFeedback">>>>]
    ELSE [className |-> "error",
          text |-> <<<<"builtin", "en", "incorrectFeedback">>,
                     getQuadrantName(tr, language, activity.correctQuadrant)>>]

\* showTextFeedback (the later definition, which replaces the earlier one)
showTextFeedback(isCorrect, activity, tr, language) ==
    IF ~HasLanguage(tr, language)
    THEN IF isCorrect
         THEN [className |-> "success", text |-> <<<<"builtin", "en", "correctFeedback">>>>]
         ELSE [className |-> "error",
               text |-> <<<<"builtin", "en", "incorrectFeedback">>,
                          getQuadrantName(tr, language, activity.correctQuadrant)>>]
    ELSE IF isCorrect
         THEN [className |-> "success", text |-> <<tr[language].correctFeedback>>]
         ELSE [className |-> "error",
               text |-> <<tr[language].incorrectFeedback,
                          getQuadrantName(tr, language, activity.correctQuadrant)>>]

----------------------------------------------------------------------------
(* Initial state: the script has been evaluated, DOMContentLoaded has    *)
(* called loadTranslations, and its fetch is in flight.                  *)

InitGame ==
    /\ pc = "start"
    /\ activities = <<>>
    /\ shuffledActivities = <<>>
    /\ currentActivityIndex = 0
    /\ score = 0
    /\ totalActivities = 0
    /\ currentLanguage = "en"
    /\ translations = [l \in {} |-> None]
    /\ savedLanguage \in StoredValues
    /\ currentActivityEl = Loading
    /\ feedbackEl = [className |-> "hidden", text |-> <<>>]
    /\ advanceTimers = <<>>
    /\ shuffleCalls = 0
    /\ uncaughtError = FALSE
    /\ advances = 0

\* the user of the general specification answers anything at any time
Init ==
    /\ InitGame
    /\ answerPolicy = "any"
    /\ call = NoCall

----------------------------------------------------------------------------
(* The handlers.  g is the part of the state the game functions write,   *)
(* c the part they only read at the time of the call.                    *)

Game ==
    [currentActivityIndex |-> currentActivityIndex,
     score |-> score,
     currentActivityEl |-> currentActivityEl,
     feedbackEl |-> feedbackEl]

Ctx(acts, order, total, language, tr) ==
    [activities |-> acts, shuffledActivities |-> order, totalActivities |-> total,
     currentLanguage |-> language, translations |-> tr]

CurrentCtx ==
    Ctx(activities, shuffledActivities, totalActivities, currentLanguage, translations)

SetGame(g) ==
    /\ currentActivityIndex' = g.currentActivityIndex
    /\ score' = g.score
    /\ currentActivityEl' = g.currentActivityEl
    /\ feedbackEl' = g.feedbackEl

hideFeedback(g) == [g EXCEPT !.feedbackEl = FeedbackHidden(@)]

endGame(g, c) ==
    [g EXCEPT !.currentActivityEl = CompleteScreen(g.score, c.totalActivities)]

displayActivity(index, g, c) ==
    IF index >= Len(c.shuffledActivities)
    THEN endGame(g, c)
    ELSE hideFeedback(
           [g EXCEPT !.currentActivityIndex = index,
                     !.currentActivityEl =
                        ActivityScreen(ActivityText(c.shuffledActivities[index + 1],
                                                    c.currentLanguage))])

\* startGame that returns without presenting an item
startGame_NoDisplay(g, c) == g

\* startGame without the empty-list guard
startGame_Unguarded(g, c) == displayActivity(0, g, c)

startGame(g, c) ==
    IF Len(c.activities) = 0 THEN g ELSE displayActivity(0, g, c)

\* score -= points instead of score += points
updateScore_Negative(points, g) == [g EXCEPT !.score = @ - points]

\* score = points instead of score += points
updateScore_Mutant(points, g) == [g EXCEPT !.score = points]

updateScore(points, g) == [g EXCEPT !.score = @ + points]

\* an advance that does nothing once the order is exhausted
showNextActivity_NeverEnds(g, c) ==
    LET nextIndex == g.currentActivityIndex + 1
    IN  IF nextIndex >= Len(c.shuffledActivities)
        THEN g
        ELSE displayActivity(nextIndex, g, c)

\* an advance that ends the game one item early
showNextActivity_EndsEarly(g, c) ==
    LET nextIndex == g.currentActivityIndex + 1
    IN  IF nextIndex + 1 >= Len(c.shuffledActivities)
        THEN endGame(g, c)
        ELSE displayActivity(nextIndex, g, c)

\* an advance that stores the index before testing for the end
showNextActivity_Mutant(g, c) ==
    LET nextIndex == g.currentActivityIndex + 1
    IN  IF nextIndex >= Len(c.shuffledActivities)
        THEN endGame([g EXCEPT !.currentActivityIndex = nextIndex], c)
        ELSE displayActivity(nextIndex, g, c)

showNextActivity(g, c) ==
    LET nextIndex == g.currentActivityIndex + 1
    IN  IF nextIndex >= Len(c.shuffledActivities)
        THEN endGame(g, c)
        ELSE displayActivity(nextIndex, g, c)

\* shuffledActivities[currentActivityIndex] is undefined
NoCurrentItem(g, c) == g.currentActivityIndex + 1 \notin DOMAIN c.shuffledActivities

\* selectQuadrant that moves to the next item itself
selectQuadrant_Advancing(selectedQuadrant, g, c) ==
    LET currentActivity == c.shuffledActivities[g.currentActivityIndex + 1]
        isCorrect == selectedQuadrant = currentActivity.correctQuadrant
        g1 == IF isCorrect THEN updateScore(1, g) ELSE g
    IN  [g1 EXCEPT !.currentActivityIndex = @ + 1,
                   !.feedbackEl =
            showTextFeedback(isCorrect, currentActivity, c.translations, c.currentLanguage)]

\* selectQuadrant that always evaluates the first item of the order
selectQuadrant_FirstItem(selectedQuadrant, g, c) ==
    LET currentActivity == c.shuffledActivities[1]
        isCorrect == selectedQuadrant = currentActivity.correctQuadrant
        g1 == IF isCorrect THEN updateScore(1, g) ELSE g
    IN  [g1 EXCEPT !.feedbackEl =
            showTextFeedback(isCorrect, currentActivity, c.translations, c.currentLanguage)]

\* selectQuadrant up to the setTimeout call
selectQuadrant(selectedQuadrant, g, c) ==
    LET currentActivity == c.shuffledActivities[g.currentActivityIndex + 1]
        isCorrect == selectedQuadrant = currentActivity.correctQuadrant
        g1 == IF isCorrect THEN updateScore(1, g) ELSE g
    IN  [g1 EXCEPT !.feedbackEl =
            showTextFeedback(isCorrect, currentActivity, c.translations, c.currentLanguage)]

\* a reset that keeps the score
resetGame_Mutant(g, c) ==
    startGame([g EXCEPT !.currentActivityIndex = 0], c)

resetGame(g, c) ==
    startGame([g EXCEPT !.score = 0, !.currentActivityIndex = 0], c)

\* resetGameToLanguage without the empty-list guard
resetGameToLanguage_Unguarded(g, c) ==
    displayActivity(0, hideFeedback([g EXCEPT !.score = 0, !.currentActivityIndex = 0]), c)

\* a language reset that keeps the score
resetGameToLanguage_Mutant(g, c) ==
    LET g1 == hideFeedback([g EXCEPT !.currentActivityIndex = 0])
    IN  IF Len(c.activities) > 0 THEN displayActivity(0, g1, c) ELSE g1

resetGameToLanguage(g, c) ==
    LET g1 == hideFeedback([g EXCEPT !.score = 0, !.currentActivityIndex = 0])
    IN  IF Len(c.activities) > 0 THEN displayActivity(0, g1, c) ELSE g1

\* the advance counter stops one past the longest session
AdvanceCap ==
    (IF MaxActivities > EmbeddedLen THEN MaxActivities ELSE EmbeddedLen) + 1

\* timers scheduled before a reset belong to the session that was replaced
MarkStale(timers) == [i \in DOMAIN timers |-> "stale"]

----------------------------------------------------------------------------
(* Actions *)

\* loadTranslations: the fetch of lang.json settles
LoadTranslationsOk(data) ==
    /\ pc = "start"
    /\ translations' = data
    /\ IF savedLanguage # Unset /\ HasLanguage(data, savedLanguage)
       THEN currentLanguage' = savedLanguage /\ UNCHANGED savedLanguage
       ELSE currentLanguage' = "en" /\ savedLanguage' = "en"
    /\ pc' = "loadingActivities"
    /\ UNCHANGED <<activities, shuffledActivities, currentActivityIndex, score,
                   totalActivities, currentActivityEl, feedbackEl, advanceTimers,
                   shuffleCalls, uncaughtError,
                   advances, answerPolicy, call>>

\* a catch branch that goes on to loadActivities without a table
LoadTranslationsFail_NoTable ==
    /\ pc = "start"
    /\ pc' = "loadingActivities"
    /\ UNCHANGED <<activities, shuffledActivities, currentActivityIndex, score,
                   totalActivities, currentLanguage, translations, savedLanguage,
                   currentActivityEl, feedbackEl, advanceTimers, shuffleCalls,
                   uncaughtError,
                   advances, answerPolicy, call>>

\* loadTranslations, catch branch: useEmbeddedTranslations, or the same three
\* statements in the else branch
LoadTranslationsFail ==
    /\ pc = "start"
    /\ translations' = getEmbeddedTranslations
    /\ pc' = "loadingActivities"
    /\ UNCHANGED <<activities, shuffledActivities, currentActivityIndex, score,
                   totalActivities, currentLanguage, savedLanguage,
                   currentActivityEl, feedbackEl, advanceTimers, shuffleCalls,
                   uncaughtError,
                   advances, answerPolicy, call>>

\* the tail shared by loadActivities and useEmbeddedData
StoreActivities(data, draws) ==
    /\ activities' = data
    /\ totalActivities' = Len(data)
    /\ shuffledActivities' = shuffleArray(data, draws)
    /\ shuffleCalls' = shuffleCalls + 1
    /\ advances' = 0
    /\ SetGame(startGame(Game, Ctx(data, shuffleArray(data, draws), Len(data),
                                   currentLanguage, translations)))
    /\ pc' = "ready"
    /\ UNCHANGED <<currentLanguage, translations, savedLanguage, advanceTimers,
                   uncaughtError,
                   answerPolicy, call>>

\* loadActivities: data.json arrived with a non-empty activities array
LoadActivitiesOk ==
    /\ pc = "loadingActivities"
    /\ \E n \in 1..MaxActivities :
         \E cq \in [1..n -> QuadrantSet] :
           \E draws \in ValidDraws(n) :
              StoreActivities(ExternalActivities(n, cq), draws)

\* the errors the try block of loadActivities can raise, as the phrases of
\* error.message: a rejected fetch (the text depends on the browser), a
\* non-OK status, a body that is not JSON, a missing or empty activities array
LoadErrors ==
    {<<"TypeError", "Failed to fetch">>,
     <<"TypeError", "NetworkError when attempting to fetch resource.">>,
     <<"Error", "HTTP error! status:", "404">>,
     <<"SyntaxError", "Unexpected token">>,
     <<"Error", "No activities found in data.json">>}

\* error.message.includes(phrase)
Includes(message, phrase) == \E i \in DOMAIN message : message[i] = phrase

\* a test that lets every error fall back
IsFetchRestriction_Always(message) == TRUE

\* the test of the catch branch
IsFetchRestriction(message) ==
    Includes(message, "Failed to fetch") \/ Includes(message, "CORS")

\* loadActivities, catch branch
LoadActivitiesCatch(message) ==
    /\ pc = "loadingActivities"
    /\ IF IsFetchRestriction(message)
       THEN \E draws \in ValidDraws(EmbeddedLen) :
               StoreActivities(EmbeddedActivities, draws)
       ELSE /\ currentActivityEl' = ErrorScreen(message)
            /\ pc' = "ready"
            /\ UNCHANGED <<activities, shuffledActivities, currentActivityIndex,
                           score, totalActivities, currentLanguage, translations,
                           savedLanguage, feedbackEl, advanceTimers,
                           shuffleCalls, uncaughtError,
                   advances, answerPolicy, call>>

\* loadActivities, catch branch with a fetch error: useEmbeddedData
LoadActivitiesEmbedded ==
    \E message \in LoadErrors :
        IsFetchRestriction(message) /\ LoadActivitiesCatch(message)

\* loadActivities, catch branch with any other error: the error message
LoadActivitiesError ==
    \E message \in LoadErrors :
        ~IsFetchRestriction(message) /\ LoadActivitiesCatch(message)

\* a click on a quadrant or a key 1-4
SelectQuadrant(selectedQuadrant) ==
    IF NoCurrentItem(Game, CurrentCtx)
    THEN /\ uncaughtError' = TRUE
         /\ UNCHANGED <<pc, activities, shuffledActivities, currentActivityIndex,
                        score, totalActivities, currentLanguage, translations,
                        savedLanguage, currentActivityEl, feedbackEl,
                        advanceTimers, shuffleCalls,
                   advances, answerPolicy, call>>
    ELSE /\ Len(advanceTimers) < MaxTimers
         /\ selectQuadrant(selectedQuadrant, Game, CurrentCtx).score <= MaxScore
         /\ SetGame(selectQuadrant(selectedQuadrant, Game, CurrentCtx))
         /\ advanceTimers' = Append(advanceTimers, "live")
         /\ UNCHANGED <<pc, activities, shuffledActivities, totalActivities,
                        currentLanguage, translations, savedLanguage,
                        shuffleCalls, uncaughtError,
                   advances, answerPolicy, call>>

KeyDown(key) == SelectQuadrant(quadrantMap[key])

\* the oldest pending setTimeout callback runs showNextActivity
TimerFire ==
    /\ advanceTimers # <<>>
    /\ SetGame(showNextActivity(Game, CurrentCtx))
    /\ advanceTimers' = Tail(advanceTimers)
    /\ advances' = IF advances < AdvanceCap THEN advances + 1 ELSE advances
    /\ UNCHANGED <<pc, activities, shuffledActivities, totalActivities,
                   currentLanguage, translations, savedLanguage, shuffleCalls,
                   uncaughtError,
                   answerPolicy, call>>

\* a reset that also empties the loaded list
ResetGame_ClearsList ==
    /\ SetGame(resetGame(Game, CurrentCtx))
    /\ activities' = <<>>
    /\ totalActivities' = 0
    /\ advanceTimers' = MarkStale(advanceTimers)
    /\ advances' = 0
    /\ UNCHANGED <<pc, shuffledActivities,
                   currentLanguage, translations, savedLanguage, shuffleCalls,
                   uncaughtError,
                   answerPolicy, call>>

\* the Play Again button, or window.resetGame
ResetGame ==
    /\ SetGame(resetGame(Game, CurrentCtx))
    /\ advanceTimers' = MarkStale(advanceTimers)
    /\ advances' = 0
    /\ UNCHANGED <<pc, activities, shuffledActivities, totalActivities,
                   currentLanguage, translations, savedLanguage, shuffleCalls,
                   uncaughtError,
                   answerPolicy, call>>

\* changeLanguage that stores the preference before validating the code
ChangeLanguage_PersistFirst(language) ==
    IF ~HasLanguage(translations, language)
    THEN /\ savedLanguage' = language
         /\ UNCHANGED <<pc, activities, shuffledActivities, currentActivityIndex,
                        score, totalActivities, currentLanguage, translations,
                        currentActivityEl, feedbackEl, advanceTimers,
                        shuffleCalls, uncaughtError,
                        advances, answerPolicy, call>>
    ELSE /\ currentLanguage' = language
         /\ savedLanguage' = language
         /\ SetGame(resetGameToLanguage(Game,
                Ctx(activities, shuffledActivities, totalActivities, language,
                    translations)))
         /\ advanceTimers' = MarkStale(advanceTimers)
         /\ advances' = 0
         /\ UNCHANGED <<pc, activities, shuffledActivities, totalActivities,
                        translations, shuffleCalls, uncaughtError,
                   answerPolicy, call>>

\* changeLanguage that never writes localStorage
ChangeLanguage_NoPersist(language) ==
    IF ~HasLanguage(translations, language)
    THEN UNCHANGED vars
    ELSE /\ currentLanguage' = language
         /\ SetGame(resetGameToLanguage(Game,
                Ctx(activities, shuffledActivities, totalActivities, language,
                    translations)))
         /\ advanceTimers' = MarkStale(advanceTimers)
         /\ advances' = 0
         /\ UNCHANGED <<pc, activities, shuffledActivities, totalActivities,
                        translations, savedLanguage, shuffleCalls, uncaughtError,
                   answerPolicy, call>>

\* changeLanguage without the test of translations[language]
ChangeLanguage_Unguarded(language) ==
    /\ currentLanguage' = language
    /\ savedLanguage' = language
    /\ SetGame(resetGameToLanguage(Game,
           Ctx(activities, shuffledActivities, totalActivities, language,
               translations)))
    /\ advanceTimers' = MarkStale(advanceTimers)
    /\ advances' = 0
    /\ UNCHANGED <<pc, activities, shuffledActivities, totalActivities,
                   translations, shuffleCalls, uncaughtError,
                   answerPolicy, call>>

\* changeLanguage(language)
ChangeLanguage(language) ==
    IF ~HasLanguage(translations, language)
    THEN UNCHANGED vars
    ELSE /\ currentLanguage' = language
         /\ savedLanguage' = language
         /\ SetGame(resetGameToLanguage(Game,
                Ctx(activities, shuffledActivities, totalActivities, language,
                    translations)))
         /\ advanceTimers' = MarkStale(advanceTimers)
         /\ advances' = 0
         /\ UNCHANGED <<pc, activities, shuffledActivities, totalActivities,
                        translations, shuffleCalls, uncaughtError,
                   answerPolicy, call>>

Next ==
    \/ \E data \in ExternalTranslations : LoadTranslationsOk(data)
    \/ LoadTranslationsFail
    \/ LoadActivitiesOk
    \/ LoadActivitiesEmbedded
    \/ LoadActivitiesError
    \/ \E key \in 1..4 : KeyDown(key)
    \/ TimerFire
    \/ ResetGame
    \/ \E language \in LanguageCodes : ChangeLanguage(language)

Spec == Init /\ [][Next]_vars

----------------------------------------------------------------------------
(* A user who gives exactly one answer to each presented item and never    *)
(* resets: the session of the scenarios.  The policy fixes which answer.   *)

AnswerPolicies == {"any", "correct"} \cup QuadrantSet

PolicyAllows(policy, q) ==
    CASE policy = "any"     -> TRUE
      [] policy = "correct" ->
            q = shuffledActivities[currentActivityIndex + 1].correctQuadrant
      [] OTHER              -> q = policy

InitOneAnswer ==
    /\ InitGame
    /\ answerPolicy \in AnswerPolicies
    /\ call = NoCall

\* one click on a quadrant while an unanswered item is shown
AnswerOnce ==
    /\ currentActivityEl.kind = "activity"
    /\ feedbackEl.className = "hidden"
    /\ advanceTimers = <<>>
    /\ \E q \in QuadrantSet :
          PolicyAllows(answerPolicy, q) /\ SelectQuadrant(q)

NextOneAnswer ==
    \/ \E data \in ExternalTranslations : LoadTranslationsOk(data)
    \/ LoadTranslationsFail
    \/ LoadActivitiesOk
    \/ LoadActivitiesEmbedded
    \/ LoadActivitiesError
    \/ AnswerOnce
    \/ TimerFire

SpecOneAnswer == InitOneAnswer /\ [][NextOneAnswer]_vars

\* the same session with the timer callback always run in the end and every
\* presented item answered in the end
SpecFairAnswers ==
    SpecOneAnswer /\ WF_vars(TimerFire) /\ WF_vars(AnswerOnce)

----------------------------------------------------------------------------
(* Single function calls.  The game state stays as constructed; call holds *)
(* the arguments, the position inside the function and the result.         *)

gameVars == <<pc, activities, shuffledActivities, currentActivityIndex, score,
              totalActivities, currentLanguage, translations, savedLanguage,
              currentActivityEl, feedbackEl, advanceTimers, shuffleCalls,
              uncaughtError, advances, answerPolicy>>

MaxListLen == 3   \* longest list handed to shuffleArray

ListItems == 1..MaxListLen

Lists == UNION {[1..n -> ListItems] : n \in 0..MaxListLen}

\* the arrays alive during loadActivities' call shuffleArray([...activities])
Refs == {"activities", "arg", "shuffled"}

ShuffleCalls ==
    {[fn |-> "shuffleArray", pc |-> "call", input |-> list,
      heap |-> [r \in Refs |-> IF r = "activities" THEN list ELSE <<>>],
      array |-> "activities", shuffled |-> "activities",
      i |-> 0, draws |-> [k \in 1..(Len(list) - 1) |-> 0]] : list \in Lists}

\* a copy that is only another name for the argument
CopyRef_Alias(arrayRef) == arrayRef

\* const shuffled = [...array]: the array the spread allocates
CopyRef(arrayRef) == "shuffled"

\* the caller's [...activities]
ShuffleSpread ==
    /\ call.fn = "shuffleArray"
    /\ call.pc = "call"
    /\ call' = [call EXCEPT !.heap["arg"] = call.heap["activities"],
                            !.array = "arg",
                            !.pc = "copy"]
    /\ UNCHANGED gameVars

\* const shuffled = [...array] and the loop initialisation
ShuffleCopy ==
    /\ call.fn = "shuffleArray"
    /\ call.pc = "copy"
    /\ call' = [call EXCEPT !.heap[CopyRef(call.array)] = call.heap[call.array],
                            !.shuffled = CopyRef(call.array),
                            !.i = Len(call.heap[call.array]) - 1,
                            !.pc = "loop"]
    /\ UNCHANGED gameVars

\* one iteration of the Fisher-Yates loop
ShuffleIter ==
    /\ call.fn = "shuffleArray"
    /\ call.pc = "loop"
    /\ call.i > 0
    /\ \E j \in DrawRange(call.i) :
          call' = [call EXCEPT !.heap[call.shuffled] = Swap(@, call.i, j),
                               !.draws[call.i] = j,
                               !.i = call.i - 1]
    /\ UNCHANGED gameVars

\* return shuffled
ShuffleReturn ==
    /\ call.fn = "shuffleArray"
    /\ call.pc = "loop"
    /\ call.i <= 0
    /\ call' = [call EXCEPT !.pc = "done"]
    /\ UNCHANGED gameVars

\* texts a description may carry
DescLangs == {"en", "pt"}

DescriptionObjects ==
    UNION {[langs -> {<<"text", "one">>, <<"text", "two">>, EmptyString}] :
              langs \in SUBSET DescLangs}

Descriptions ==
    {[isObject |-> TRUE, plain |-> None, byLang |-> o] : o \in DescriptionObjects}
    \cup {[isObject |-> FALSE, plain |-> t, byLang |-> <<>>] :
              t \in {<<"text", "one">>, EmptyString}}

ResolveCalls ==
    {[fn |-> "resolve", pc |-> "call", description |-> d, language |-> l,
      result |-> None] : d \in Descriptions, l \in LanguageCodes}

\* the description lookup of displayActivity
ApplyResolve ==
    /\ call.fn = "resolve"
    /\ call.pc = "call"
    /\ call' = [call EXCEPT
                  !.result = ActivityText([description |-> call.description,
                                           correctQuadrant |-> "q1"],
                                          call.language),
                  !.pc = "done"]
    /\ UNCHANGED gameVars

\* a label table in which the titles of the quadrants in missing are blank
PartialTable(lang, missing, blank) ==
    [q1Title |-> IF "q1" \in missing THEN blank ELSE <<"lang.json", lang, "q1Title">>,
     q2Title |-> IF "q2" \in missing THEN blank ELSE <<"lang.json", lang, "q2Title">>,
     q3Title |-> IF "q3" \in missing THEN blank ELSE <<"lang.json", lang, "q3Title">>,
     q4Title |-> IF "q4" \in missing THEN blank ELSE <<"lang.json", lang, "q4Title">>,
     correctFeedback   |-> <<"lang.json", lang, "correctFeedback">>,
     incorrectFeedback |-> <<"lang.json", lang, "incorrectFeedback">>]

TranslationTables ==
    {[l \in langs |-> PartialTable(l, missing, blank)] :
        langs \in SUBSET {"en", "pt"},
        missing \in SUBSET QuadrantSet,
        blank \in {None, EmptyString}}

QuadrantNameCalls ==
    {[fn |-> "getQuadrantName", pc |-> "call", translations |-> tr,
      language |-> l, quadrant |-> q, result |-> None] :
        tr \in TranslationTables, l \in LanguageCodes, q \in QuadrantSet}

ApplyQuadrantName ==
    /\ call.fn = "getQuadrantName"
    /\ call.pc = "call"
    /\ call' = [call EXCEPT
                  !.result = getQuadrantName(call.translations, call.language,
                                             call.quadrant),
                  !.pc = "done"]
    /\ UNCHANGED gameVars

InitFunctions ==
    /\ InitGame
    /\ savedLanguage = Unset
    /\ answerPolicy = "any"
    /\ call \in ShuffleCalls \cup ResolveCalls \cup QuadrantNameCalls

NextFunctions ==
    \/ ShuffleSpread
    \/ ShuffleCopy
    \/ ShuffleIter
    \/ ShuffleReturn
    \/ ApplyResolve
    \/ ApplyQuadrantName

SpecFunctions == InitFunctions /\ [][NextFunctions]_vars

----------------------------------------------------------------------------
(* Derived notions *)

Loaded == Len(activities) > 0

Complete == currentActivityEl.kind = "complete"

Active == currentActivityEl.kind = "activity"

TypeOK ==
    /\ pc \in {"start", "loadingActivities", "ready"}
    /\ currentActivityIndex \in Nat
    /\ score \in 0..MaxScore
    /\ Len(advanceTimers) <= MaxTimers

Range(f) == {f[i] : i \in DOMAIN f}

\* order holds exactly the elements of list, each as often as list does
IsPermutation(order, list) ==
    /\ Len(order) = Len(list)
    /\ \E p \in [DOMAIN list -> DOMAIN list] :
          /\ \A i, j \in DOMAIN list : i # j => p[i] # p[j]
          /\ \A i \in DOMAIN list : order[i] = list[p[i]]

\* the step is a reset of a running session
SessionReset ==
    \/ ResetGame
    \/ \E language \in LanguageCodes :
          HasLanguage(translations, language) /\ ChangeLanguage(language)

----------------------------------------------------------------------------
(* Claims *)

\* C1: in every reachable state 0 <= score and score <= position
\* (currentActivityIndex).
C1_ScoreWithinPosition ==
    0 <= score /\ score <= currentActivityIndex

\* C2: an auto-advance callback scheduled before a reset and firing after it
\* changes neither position, score nor phase of the new session.
C2_StaleAdvanceIgnored ==
    [][(advanceTimers # <<>> /\ Head(advanceTimers) = "stale" /\ TimerFire)
         => /\ currentActivityIndex' = currentActivityIndex
            /\ score' = score
            /\ currentActivityEl'.kind = currentActivityEl.kind]_vars

\* C3: a second selectQuadrant for the item already answered, made while its
\* deferred advance is still pending, does not increment score again.
C3_OneAnswerPerItem ==
    [][(/\ feedbackEl.className # "hidden"
        /\ "live" \in Range(advanceTimers)
        /\ \E q \in QuadrantSet : SelectQuadrant(q))
         => score' = score]_vars

\* C4: once the session is Complete, only a reset (resetGame or a successful
\* changeLanguage) changes score, position or phase.
C4_CompleteIsTerminal ==
    [][(Complete /\ ~SessionReset)
         => /\ score' = score
            /\ currentActivityIndex' = currentActivityIndex
            /\ Complete']_vars

C6_OrderIsPermutation ==
    Loaded =>
        /\ IsPermutation(shuffledActivities, activities)
        /\ Len(shuffledActivities) = totalActivities

C6_Witness ==
    /\ Loaded
    /\ shuffledActivities # activities
    /\ "stale" \in Range(advanceTimers)
    /\ currentLanguage = "pt"

\* C7: selectQuadrant(selected) on the current item raises score by exactly 1
\* when selected is the item's correctQuadrant and by 0 for the other three.
C7_ScoreIncrement ==
    [][\A q \in QuadrantSet :
         (~NoCurrentItem(Game, CurrentCtx) /\ SelectQuadrant(q))
            => score' = score +
                 (IF q = shuffledActivities[currentActivityIndex + 1].correctQuadrant
                  THEN 1 ELSE 0)]_vars

C7_Witness ==
    /\ score >= 1
    /\ feedbackEl.className = "error"
    /\ advanceTimers # <<>>

\* C8: every reset of the session, by resetGame or by a successful
\* changeLanguage, invokes shuffle once to regenerate the order.
C8_ResetReshuffles ==
    [][(Loaded /\ SessionReset) => shuffleCalls' = shuffleCalls + 1]_vars

\* C9: right after resetGame with activities loaded, score = 0, position = 0
\* and the phase is Active with the first item of the order presented.
C9_ResetGameRestarts ==
    [][(Loaded /\ ResetGame)
         => /\ score' = 0
            /\ currentActivityIndex' = 0
            /\ Active'
            /\ currentActivityEl'.text =
                 ActivityText(shuffledActivities[1], currentLanguage)
            /\ feedbackEl'.className = "hidden"]_vars

\* resetGame has run after an answer (no changeLanguage can have succeeded with
\* the preference still unset)
C9_Witness ==
    /\ Loaded
    /\ savedLanguage = Unset
    /\ "stale" \in Range(advanceTimers)
    /\ score = 0
    /\ currentActivityIndex = 0
    /\ Active
    /\ feedbackEl.className = "hidden"

\* C10: a successful changeLanguage(lang) in any session state resets the
\* session: position = 0, score = 0, phase Active, and the current item is
\* shown in the new language.
C10_ChangeLanguageResets ==
    [][\A language \in LanguageCodes :
         (Loaded /\ HasLanguage(translations, language) /\ ChangeLanguage(language))
            => /\ currentActivityIndex' = 0
               /\ score' = 0
               /\ Active'
               /\ currentActivityEl'.text =
                    ActivityText(shuffledActivities[1], language)
               /\ currentLanguage' = language]_vars

\* changeLanguage("pt") has run after an answer: the embedded tables are only
\* installed on the path that leaves the start-up language at "en"
C10_Witness ==
    /\ Loaded
    /\ translations = getEmbeddedTranslations
    /\ currentLanguage = "pt"
    /\ "stale" \in Range(advanceTimers)
    /\ score = 0
    /\ currentActivityIndex = 0
    /\ Active
    /\ currentActivityEl.text[1] = "pt"

C12_LanguagePersisted ==
    [][\A language \in LanguageCodes :
         (HasLanguage(translations, language) /\ ChangeLanguage(language))
            => /\ savedLanguage' = language
               /\ currentLanguage' = language]_vars

\* changeLanguage("pt") has run: start-up with the embedded tables leaves the
\* language at "en"
C12_Witness ==
    /\ translations = getEmbeddedTranslations
    /\ currentLanguage = "pt"
    /\ savedLanguage = "pt"

\* C14: within a session score never decreases: only resetGame or a successful
\* changeLanguage lowers it.
C14_ScoreMonotone ==
    [][~SessionReset => score' >= score]_vars

C14_Witness ==
    /\ score >= 2
    /\ currentActivityIndex >= 1
    /\ Active

\* C16: while no activities are loaded the session is neither Active nor
\* Complete and score and position stay 0, whatever events arrive.
C16_NoStartWithoutActivities ==
    ~Loaded =>
        /\ ~Active
        /\ ~Complete
        /\ score = 0
        /\ currentActivityIndex = 0
        /\ advanceTimers = <<>>

\* the load failed, then a key was pressed and the language was changed
C16_Witness ==
    /\ ~Loaded
    /\ currentActivityEl.kind = "error"
    /\ uncaughtError
    /\ translations = getEmbeddedTranslations
    /\ currentLanguage = "pt"

\* C17: no operation raises an unhandled fault; selectQuadrant with no active
\* item does not throw.
C17_NoUnhandledFault ==
    uncaughtError = FALSE

\* C18: the completion report is never written with totalActivities = 0, so
\* the accuracy is never the result of a division by zero.
C18_ReportHasActivities ==
    Complete =>
        /\ totalActivities > 0
        /\ currentActivityEl.total > 0
        /\ currentActivityEl.accuracy # Accuracy(0, 0)

C18_Witness ==
    /\ Complete
    /\ currentActivityEl.total = 2
    /\ currentActivityEl.accuracy = 50

C13_CompleteAfterAllAdvances ==
    Loaded =>
        /\ advances <= totalActivities
        /\ advances < totalActivities => Active
        /\ advances = totalActivities => Complete

C13_Witness ==
    /\ Complete
    /\ totalActivities = 3
    /\ advances = 3

\* C19: if every presented item is answered once with its own correctQuadrant,
\* the session completes with score = totalActivities and accuracy 100.
C19_AllCorrectScoresAll ==
    (answerPolicy = "correct" /\ Complete) =>
        /\ score = totalActivities
        /\ currentActivityEl.score = totalActivities
        /\ currentActivityEl.total = totalActivities
        /\ currentActivityEl.accuracy = 100

C19_Witness ==
    /\ answerPolicy = "correct"
    /\ Complete
    /\ totalActivities = 3
    /\ shuffledActivities # activities

\* the number of loaded activities whose correctQuadrant is q
CountOf(q) ==
    Cardinality({i \in DOMAIN activities : activities[i].correctQuadrant = q})

\* C20: if every presented item is answered once with the same quadrant q, the
\* final score is the number of activities whose correctQuadrant is q, whatever
\* the shuffled order.
C20_SameAnswerScoresCount ==
    (answerPolicy \in QuadrantSet /\ Complete) =>
        /\ score = CountOf(answerPolicy)
        /\ currentActivityEl.score = CountOf(answerPolicy)

C20_Witness ==
    /\ answerPolicy = "q1"
    /\ Complete
    /\ totalActivities = 3
    /\ score = 1
    /\ shuffledActivities[1].correctQuadrant # "q1"

\* the number of positions of list holding x
Occurrences(list, x) == Cardinality({k \in 1..Len(list) : list[k] = x})

ShuffleDone == call.fn = "shuffleArray" /\ call.pc = "done"

ShuffleResult == call.heap[call.shuffled]

\* C21: for every list L, the list shuffleArray returns has the length of L
\* and holds every element as many times as L does.
C21_ShuffleKeepsMultiset ==
    ShuffleDone =>
        /\ Len(ShuffleResult) = Len(call.input)
        /\ \A x \in ListItems :
              Occurrences(ShuffleResult, x) = Occurrences(call.input, x)

C21_Witness ==
    /\ ShuffleDone
    /\ call.input = <<1, 1, 2>>
    /\ ShuffleResult = <<2, 1, 1>>

\* C22: shuffleArray does not mutate its input: during and after the call the
\* loaded activities list, and the argument list copied from it, hold the
\* elements they held before, in the same positions.
C22_ShuffleLeavesInput ==
    call.fn = "shuffleArray" =>
        /\ call.heap["activities"] = call.input
        /\ call.pc # "call" => call.heap["arg"] = call.input
        /\ call.pc \in {"loop", "done"} => call.shuffled \notin {"activities", "arg"}

C22_Witness ==
    /\ ShuffleDone
    /\ Len(call.input) = 3
    /\ ShuffleResult # call.input
    /\ call.heap["arg"] = call.input

Distinct(list) == \A a, b \in 1..Len(list) : a # b => list[a] # list[b]

RECURSIVE Factorial(_)
Factorial(n) == IF n <= 1 THEN 1 ELSE n * Factorial(n - 1)

\* the orders of the elements of a list of distinct elements
PermutationsOf(list) ==
    {p \in [1..Len(list) -> Range(list)] : Distinct(p)}

\* C29: on a list of n distinct elements, the draw sequences with j in 0..i
\* for i from n-1 down to 1 are n! many, the run follows one of them, every
\* one of the n! permutations is the result of some draw sequence, and no
\* two draw sequences give the same permutation.
C29_DrawsMatchPermutations ==
    (ShuffleDone /\ Distinct(call.input)) =>
        LET n == Len(call.input)
            results == {shuffleArray(call.input, d) : d \in ValidDraws(n)}
        IN  /\ call.draws \in ValidDraws(n)
            /\ ShuffleResult = shuffleArray(call.input, call.draws)
            /\ Cardinality(ValidDraws(n)) = Factorial(n)
            /\ results = PermutationsOf(call.input)
            /\ Cardinality(PermutationsOf(call.input)) = Factorial(n)
            /\ \A d \in ValidDraws(n) :
                  shuffleArray(call.input, d) = ShuffleResult => d = call.draws

C29_Witness ==
    /\ ShuffleDone
    /\ call.input = <<1, 2, 3>>
    /\ ShuffleResult = <<3, 2, 1>>

ResolveDone == call.fn = "resolve" /\ call.pc = "done"

\* C23 as stated: resolving a description for a language yields
\* description[lang] when the description is an object containing lang,
\* description.en when lang is missing from it, and the string itself when
\* the description is a plain string.
C23_ResolveAsStated ==
    ResolveDone =>
        LET d == call.description
        IN  IF d.isObject
            THEN IF call.language \in DOMAIN d.byLang
                 THEN call.result = d.byLang[call.language]
                 ELSE call.result = Prop(d.byLang, "en")
            ELSE call.result = d.plain

\* C23: resolving a description for a language yields description[lang] when
\* the description is an object whose entry for lang is a non-empty text,
\* description.en when lang is missing from it or its entry is the empty
\* string, and the string itself, for every language, when the description
\* is a plain string.
C23_ResolveNonEmptyEntry ==
    ResolveDone =>
        LET d == call.description
        IN  IF d.isObject
            THEN IF call.language \in DOMAIN d.byLang
                    /\ d.byLang[call.language] # EmptyString
                 THEN call.result = d.byLang[call.language]
                 ELSE call.result = Prop(d.byLang, "en")
            ELSE call.result = d.plain

C23_Witness ==
    /\ ResolveDone
    /\ call.description.isObject
    /\ call.language = "pt"
    /\ DOMAIN call.description.byLang = {"en", "pt"}
    /\ call.description.byLang["pt"] = EmptyString
    /\ call.result = <<"text", "one">>

QuadrantNameDone == call.fn = "getQuadrantName" /\ call.pc = "done"

\* the active language has no table, or its table has no title for the quadrant
TitleMissing ==
    \/ ~HasLanguage(call.translations, call.language)
    \/ TitleOf(call.translations[call.language], call.quadrant) = None

C25_FeedbackMatchesAnswer ==
    [][\A q \in QuadrantSet :
         (~NoCurrentItem(Game, CurrentCtx) /\ SelectQuadrant(q))
            => LET item == shuffledActivities[currentActivityIndex + 1]
               IN  /\ HasLanguage(translations, currentLanguage)
                   /\ feedbackEl'.className = "success" <=> q = item.correctQuadrant
                   /\ feedbackEl'.className = "error" <=> q # item.correctQuadrant
                   /\ q = item.correctQuadrant =>
                         feedbackEl'.text = <<translations[currentLanguage].correctFeedback>>
                   /\ q # item.correctQuadrant =>
                         feedbackEl'.text =
                            <<translations[currentLanguage].incorrectFeedback,
                              TitleOf(translations[currentLanguage], item.correctQuadrant)>>]_vars

C25_Witness ==
    /\ currentLanguage = "pt"
    /\ ~NoCurrentItem(Game, CurrentCtx)
    /\ feedbackEl.className = "error"
    /\ feedbackEl.text =
          <<translations["pt"].incorrectFeedback,
            TitleOf(translations["pt"],
                    shuffledActivities[currentActivityIndex + 1].correctQuadrant)>>
    /\ advanceTimers = <<"live">>

\* C26: when startup translation loading finishes, by the external load or
\* by the embedded fallback, the active language is the persisted preference
\* if the loaded tables support it, and 'en' otherwise.
C26_LanguageFollowsPreference ==
    [][(pc = "start" /\ pc' = "loadingActivities")
          => currentLanguage' =
                (IF HasLanguage(translations', savedLanguage)
                 THEN savedLanguage ELSE "en")]_vars

\* C27: when content load completes with a non-empty activity list, a
\* shuffled order of the loaded list has been produced, position and score
\* are 0, and the session is Active presenting the first item of the order.
C27_LoadStartsSession ==
    [][(pc = "loadingActivities" /\ pc' = "ready" /\ Len(activities') > 0)
          => /\ ~Active /\ ~Complete
             /\ Active'
             /\ shuffleCalls' = shuffleCalls + 1
             /\ IsPermutation(shuffledActivities', activities')
             /\ currentActivityIndex' = 0
             /\ score' = 0
             /\ currentActivityEl' =
                   ActivityScreen(ActivityText(shuffledActivities'[1], currentLanguage'))
             /\ feedbackEl'.className = "hidden"]_vars

C27_Witness ==
    /\ pc = "ready"
    /\ Active
    /\ currentActivityIndex = 0
    /\ score = 0
    /\ advances = 0
    /\ advanceTimers = <<>>
    /\ feedbackEl.className = "hidden"
    /\ shuffleCalls = 1
    /\ Len(activities) = 2
    /\ shuffledActivities # activities
    /\ currentActivityEl = ActivityScreen(ActivityText(shuffledActivities[1], currentLanguage))

\* C28: with the timer callback always run in the end and every presented
\* item answered in the end, and neither reset nor language change, an
\* Active session eventually reaches Complete.
C28_EventuallyComplete == Active ~> Complete

C28_Witness ==
    /\ Complete
    /\ totalActivities = 3
    /\ advances = 3
    /\ score = 2
    /\ answerPolicy = "any"
    /\ advanceTimers = <<>>

\* C30: selectQuadrant leaves position, order, loaded activities,
\* totalActivities and active language unchanged; the advance step leaves
\* score unchanged and raises position by exactly 1 or completes the session.
C30_AnswerAndAdvanceFrames ==
    [][/\ (\E q \in QuadrantSet : SelectQuadrant(q))
            => UNCHANGED <<currentActivityIndex, shuffledActivities, activities,
                           totalActivities, currentLanguage>>
       /\ TimerFire
            => /\ score' = score
               /\ \/ currentActivityIndex' = currentActivityIndex + 1
                  \/ Complete']_vars

C30_Witness ==
    /\ Active
    /\ currentActivityIndex = 1
    /\ score = 1
    /\ advances = 1
    /\ feedbackEl.className = "success"
    /\ advanceTimers = <<"live">>

\* C31: the position never advances past an item that has not been answered
\* in the current session: whenever the advance step leaves a presented
\* item, feedback for an answer to that item is on display.
C31_AdvanceOnlyAfterAnswer ==
    [][(Active /\ TimerFire) => feedbackEl.className # "hidden"]_vars

\* C32: at most one auto-advance callback is pending at any time.
C32_AtMostOnePendingAdvance ==
    Len(advanceTimers) <= 1

\* C33: whenever endGame has reported completion, the reported score lies
\* between 0 and the reported total and the reported accuracy between 0 and
\* 100.
C33_ReportedScoreWithinTotal ==
    Complete =>
        /\ 0 <= currentActivityEl.score
        /\ currentActivityEl.score <= currentActivityEl.total
        /\ 0 <= currentActivityEl.accuracy
        /\ currentActivityEl.accuracy <= 100

C35_TranslationsBeforeActivities ==
    (pc # "start" \/ Loaded \/ currentActivityEl # Loading)
        => {"en", "pt"} \subseteq DOMAIN translations

C35_Witness ==
    /\ pc = "ready"
    /\ Active
    /\ currentActivityIndex = 1
    /\ translations = getEmbeddedTranslations
    /\ {"en", "pt"} \subseteq DOMAIN translations

\* C36: resetGame and changeLanguage never change the loaded activities list
\* or totalActivities, and in every state after content load
\* totalActivities = length(activities) = length(shuffledActivities).
C36_ListAndTotalFixed ==
    [][/\ (ResetGame \/ \E language \in LanguageCodes : ChangeLanguage(language))
            => UNCHANGED <<activities, totalActivities>>
       /\ pc' = "ready"
            => /\ totalActivities' = Len(activities')
               /\ Len(activities') = Len(shuffledActivities')]_vars

C36_Witness ==
    /\ pc = "ready"
    /\ "stale" \in Range(advanceTimers)
    /\ currentLanguage = "pt"
    /\ totalActivities = 3
    /\ Len(activities) = 3
    /\ Len(shuffledActivities) = 3
    /\ shuffledActivities # activities

====
